---- MODULE Spec2Model ----
(***************************************************************************)
(* A model of the interactive shell of src/src/main.rs: the read-parse-    *)
(* print loop of main, the tokenizer and dispatcher of parse, the resolver *)
(* Command::get_command_path / is_executable, and Shell::change_dir.       *)
(*                                                                         *)
(* Text (String, &str, PathBuf, the bytes of a child's stdout) is a        *)
(* sequence of one-character strings, so that splitting, trimming,         *)
(* replacing and pushing are computed character by character as the code   *)
(* computes them.  The operating system the code calls into (the           *)
(* filesystem, chdir, open/read, stat, exec, the environment) is modelled  *)
(* by a small directory tree that does not change while the shell runs.    *)
(* Input lines are valid UTF-8, the standard streams do not fail, and the   *)
(* entries of PATH are non-empty, so a resolved program always contains a   *)
(* separator and is run as named.                                           *)
(***************************************************************************)
EXTENDS Integers, Sequences, FiniteSets, TLC

(* ------------------------------ Option --------------------------------- *)

None == [some |-> FALSE]
Some(v) == [some |-> TRUE, v |-> v]

(* ------------------------------ bounds --------------------------------- *)

\* longest run of spaces and tabs enumerated as a whitespace-only input line
MaxBlank == 2
\* longest captured standard output of a child process that is enumerated
MaxOutLen == 2

(* --------------------------- text primitives --------------------------- *)

\* the characters with the Unicode property White_Space; a character that
\* has no escape is written by its code point
WhiteSpace ==
    {"\t", "\n", "U+000B", "\f", "\r", " ", "U+0085", "U+00A0", "U+1680",
     "U+2000", "U+2001", "U+2002", "U+2003", "U+2004", "U+2005", "U+2006",
     "U+2007", "U+2008", "U+2009", "U+200A", "U+2028", "U+2029", "U+202F",
     "U+205F", "U+3000"}

\* a faulty is_whitespace: the tab is not taken for whitespace
is_whitespace_no_tab(c) == c \in WhiteSpace \ {"\t"}

\* char::is_whitespace
is_whitespace(c) == c \in WhiteSpace

RECURSIVE SplitFrom(_, _, _)
SplitFrom(s, i, cur) ==
    IF i > Len(s)
    THEN IF cur = <<>> THEN <<>> ELSE <<cur>>
    ELSE IF is_whitespace(s[i])
         THEN IF cur = <<>>
              THEN SplitFrom(s, i + 1, <<>>)
              ELSE <<cur>> \o SplitFrom(s, i + 1, <<>>)
         ELSE SplitFrom(s, i + 1, Append(cur, s[i]))

\* str::split_whitespace: the maximal runs of non-whitespace, in order
split_whitespace(s) == SplitFrom(s, 1, <<>>)

RECURSIVE trim_end(_)
\* str::trim_end: every trailing whitespace character is removed
trim_end(s) ==
    IF s # <<>> /\ is_whitespace(s[Len(s)])
    THEN trim_end(SubSeq(s, 1, Len(s) - 1))
    ELSE s

RECURSIVE replace(_, _, _)
\* str::replace(ch, with): every occurrence of the character ch becomes with
replace(s, ch, with) ==
    IF s = <<>> THEN <<>>
    ELSE (IF Head(s) = ch THEN with ELSE <<Head(s)>>) \o replace(Tail(s), ch, with)

RECURSIVE echo_fold(_, _)
\* the fold of the echo branch: the arguments joined by single spaces
echo_fold(acc, args) ==
    IF args = <<>> THEN acc
    ELSE echo_fold((IF acc # <<>> THEN Append(acc, " ") ELSE acc) \o Head(args),
                   Tail(args))

\* String::from_utf8_lossy: a byte that is not valid UTF-8 is replaced by U+FFFD
from_utf8_lossy(bytes) ==
    [i \in 1..Len(bytes) |-> IF bytes[i] = "0xFF" THEN "U+FFFD" ELSE bytes[i]]

RECURSIVE SplitOn(_, _, _, _)
SplitOn(s, sep, i, cur) ==
    IF i > Len(s) THEN <<cur>>
    ELSE IF s[i] = sep
         THEN <<cur>> \o SplitOn(s, sep, i + 1, <<>>)
         ELSE SplitOn(s, sep, i + 1, Append(cur, s[i]))

\* str::split(sep): the pieces between separators, empty pieces included
split(s, sep) == SplitOn(s, sep, 1, <<>>)

\* PathBuf::push: an absolute component replaces the buffer; otherwise a
\* separator is added unless the buffer is empty or already ends with one
push(buf, comp) ==
    IF comp # <<>> /\ comp[1] = "/" THEN comp
    ELSE IF buf # <<>> /\ buf[Len(buf)] # "/" THEN buf \o <<"/">> \o comp
    ELSE buf \o comp

(* ------------------------- the operating system ------------------------ *)

\* A directory is named by the sequence of its components from the root;
\* a node records its type, its permission bits, and what the operating
\* system grants this process on it ("r": open for reading, "x": execute
\* a file or search a directory).
File(mode, access) == [kind |-> "file", mode |-> mode, access |-> access]
Dir(mode, access) == [kind |-> "dir", mode |-> mode, access |-> access]

RECURSIVE NonEmpty(_)
NonEmpty(ss) ==
    IF ss = <<>> THEN <<>>
    ELSE (IF Head(ss) = <<>> THEN <<>> ELSE <<Head(ss)>>) \o NonEmpty(Tail(ss))

RECURSIVE Walk(_, _, _)
\* path resolution of the kernel, one component at a time
Walk(tree, at, comps) ==
    IF at \notin DOMAIN tree THEN [err |-> "NotFound", at |-> at]
    ELSE IF comps = <<>> THEN [err |-> "Ok", at |-> at]
    ELSE IF tree[at].kind # "dir" THEN [err |-> "NotADirectory", at |-> at]
    ELSE IF "x" \notin tree[at].access THEN [err |-> "PermissionDenied", at |-> at]
    ELSE IF Head(comps) = <<".">> THEN Walk(tree, at, Tail(comps))
    ELSE IF Head(comps) = <<".", ".">>
         THEN Walk(tree, IF at = <<>> THEN at ELSE SubSeq(at, 1, Len(at) - 1), Tail(comps))
    ELSE Walk(tree, Append(at, Head(comps)), Tail(comps))

\* the node a path names for a process whose working directory is wd
Lookup(tree, wd, p) ==
    IF p = <<>> THEN [err |-> "NotFound", at |-> wd]
    ELSE LET r == Walk(tree, IF p[1] = "/" THEN <<>> ELSE wd, NonEmpty(split(p, "/")))
         IN IF r.err = "Ok" /\ p[Len(p)] = "/" /\ tree[r.at].kind # "dir"
            THEN [err |-> "NotADirectory", at |-> r.at]
            ELSE r

RECURSIVE Render(_)
Render(comps) ==
    IF comps = <<>> THEN <<>> ELSE <<"/">> \o Head(comps) \o Render(Tail(comps))

\* env::current_dir().display(): the absolute path of the working directory
current_dir(wd) == IF wd = <<>> THEN <<"/">> ELSE Render(wd)

\* io::Error's Display text for the error kinds chdir can return
ErrorText(kind) ==
    CASE kind = "NotFound" -> <<"N","o"," ","s","u","c","h"," ","f","i","l","e"," ","o","r"," ","d","i","r","e","c","t","o","r","y"," ","(","o","s"," ","e","r","r","o","r"," ","2",")">>
      [] kind = "PermissionDenied" -> <<"P","e","r","m","i","s","s","i","o","n"," ","d","e","n","i","e","d"," ","(","o","s"," ","e","r","r","o","r"," ","1","3",")">>
      [] kind = "NotADirectory" -> <<"N","o","t"," ","a"," ","d","i","r","e","c","t","o","r","y"," ","(","o","s"," ","e","r","r","o","r"," ","2","0",")">>

\* env::set_current_dir: the error kind, or "Ok" and the new working directory
set_current_dir(tree, wd, p) ==
    LET r == Lookup(tree, wd, p)
    IN IF r.err # "Ok" THEN [err |-> r.err, wd |-> wd]
       ELSE IF tree[r.at].kind # "dir" THEN [err |-> "NotADirectory", wd |-> wd]
       ELSE IF "x" \notin tree[r.at].access THEN [err |-> "PermissionDenied", wd |-> wd]
       ELSE [err |-> "Ok", wd |-> r.at]

\* fs::read(path).is_ok(): the path names a regular file this process may read
fs_read_is_ok(tree, wd, p) ==
    LET r == Lookup(tree, wd, p)
    IN r.err = "Ok" /\ tree[r.at].kind = "file" /\ "r" \in tree[r.at].access

\* fs::metadata(path): the permission bits of the node, if it exists
fs_metadata(tree, wd, p) ==
    LET r == Lookup(tree, wd, p)
    IN IF r.err = "Ok" THEN Some(tree[r.at].mode) ELSE None

(* ------------------------------ resolver ------------------------------- *)

RECURSIVE BitAnd(_, _)
\* the bitwise and of two non-negative integers
BitAnd(a, b) ==
    IF a = 0 \/ b = 0 THEN 0
    ELSE (a % 2) * (b % 2) + 2 * BitAnd(a \div 2, b \div 2)

\* 0o111: the owner, group and other execute bits
ExecBits == 73

\* is_executable: the metadata can be read and some execute bit is set
is_executable(tree, wd, p) ==
    LET metadata == fs_metadata(tree, wd, p)
    IN IF metadata.some THEN BitAnd(metadata.v, ExecBits) # 0 ELSE FALSE

\* the test of the closure of get_command_path on one candidate
candidate_ok(tree, wd, p) == fs_read_is_ok(tree, wd, p) /\ is_executable(tree, wd, p)

RECURSIVE find_map(_, _, _, _, _)
find_map(command, path, i, tree, wd) ==
    IF i > Len(path) THEN None
    ELSE LET p == push(path[i], command)
         IN IF candidate_ok(tree, wd, p) THEN Some(p)
            ELSE find_map(command, path, i + 1, tree, wd)

\* Command::get_command_path: the first candidate of the search path, in
\* order, that passes the test
get_command_path(command, path, tree, wd) == find_map(command, path, 1, tree, wd)

T_echo == <<"e","c","h","o">>
T_type == <<"t","y","p","e">>
T_exit == <<"e","x","i","t">>
T_pwd == <<"p","w","d">>
T_cd == <<"c","d">>

\* a faulty is_builtin: the arm for "cd" is missing
is_builtin_no_cd(command) ==
    CASE command = T_echo -> Some(<<"e","c","h","o"," ","i","s"," ","a"," ","s","h","e","l","l"," ","b","u","i","l","t","i","n">>)
      [] command = T_type -> Some(<<"t","y","p","e"," ","i","s"," ","a"," ","s","h","e","l","l"," ","b","u","i","l","t","i","n">>)
      [] command = T_exit -> Some(<<"e","x","i","t"," ","i","s"," ","a"," ","s","h","e","l","l"," ","b","u","i","l","t","i","n">>)
      [] command = T_pwd -> Some(<<"p","w","d"," ","i","s"," ","a"," ","s","h","e","l","l"," ","b","u","i","l","t","i","n">>)
      [] OTHER -> None

\* Command::is_builtin
is_builtin(command) ==
    CASE command = T_echo -> Some(<<"e","c","h","o"," ","i","s"," ","a"," ","s","h","e","l","l"," ","b","u","i","l","t","i","n">>)
      [] command = T_type -> Some(<<"t","y","p","e"," ","i","s"," ","a"," ","s","h","e","l","l"," ","b","u","i","l","t","i","n">>)
      [] command = T_exit -> Some(<<"e","x","i","t"," ","i","s"," ","a"," ","s","h","e","l","l"," ","b","u","i","l","t","i","n">>)
      [] command = T_pwd -> Some(<<"p","w","d"," ","i","s"," ","a"," ","s","h","e","l","l"," ","b","u","i","l","t","i","n">>)
      [] command = T_cd -> Some(<<"c","d"," ","i","s"," ","a"," ","s","h","e","l","l"," ","b","u","i","l","t","i","n">>)
      [] OTHER -> None

(* ------------------------------ dispatcher ----------------------------- *)

\* Shell::change_dir: env::current_dir() cannot fail while the working
\* directory exists, and the push on its temporary value has no effect
change_dir(tree, wd, p) == set_current_dir(tree, wd, p)

\* the type branch of parse, given its argument
type_response(a, path, tree, wd) ==
    LET b == is_builtin(a)
    IN IF b.some THEN b.v
       ELSE LET v == get_command_path(a, path, tree, wd)
            IN IF v.some THEN a \o <<" ","i","s"," ">> \o v.v
               ELSE a \o <<":"," ","n","o","t"," ","f","o","u","n","d">>

\* the message of the cd branch for a failed change_dir
cd_error(kind, target) ==
    CASE kind = "NotFound" -> <<"c","d",":"," ">> \o target \o <<":"," ","N","o"," ","s","u","c","h"," ","f","i","l","e"," ","o","r"," ","d","i","r","e","c","t","o","r","y">>
      [] kind = "PermissionDenied" -> <<"c","d",":"," ","p","e","r","m","i","s","s","i","o","n"," ","d","e","n","i","e","d",":"," ">> \o target
      [] OTHER -> <<"c","d",":"," ","e","r","r","o","r"," ","c","h","a","n","g","i","n","g"," ","t","o"," ">> \o target \o <<":"," ">> \o ErrorText(kind)

\* a faulty dir_after: a failed change leaves the process in the root
dir_after_lost(wd, r) == IF r.err = "Ok" THEN r.wd ELSE <<>>

\* the working directory after a call of set_current_dir
dir_after(wd, r) == IF r.err = "Ok" THEN r.wd ELSE wd

\* std::process::exit(0)
exit_code == 0

\* the text taken from the captured standard output of a child
captured(stdout) == trim_end(from_utf8_lossy(stdout))

\* Command::new(path).args(args).output(): the child runs when the path
\* names a regular file this process may execute
can_spawn(tree, wd, p) ==
    LET r == Lookup(tree, wd, p)
    IN r.err = "Ok" /\ tree[r.at].kind = "file" /\ "x" \in tree[r.at].access

\* what one call of parse does: how it ends (kind: "Ok" and "Err" return,
\* "Exit" and "Panic" end the process), the text it returns, the working
\* directory afterwards, and the calls it made (branch of the match,
\* argument of get_command_path, path given to set_current_dir, child
\* process)
Quiet(wd) ==
    [kind |-> "Ok", text |-> <<>>, wd |-> wd, branch |-> "none",
     resolver |-> None, chdir |-> None, spawn |-> None]

\* a faulty parse_cd: without an argument an empty HOME is taken for an
\* unset one
parse_cd_empty_home(args, tree, wd, home) ==
    LET base == [Quiet(wd) EXCEPT !.branch = "cd"]
    IN IF args # <<>>
       THEN IF ~home.some
            THEN [base EXCEPT !.kind = "Err",
                              !.text = <<"e","n","v","i","r","o","n","m","e","n","t"," ","v","a","r","i","a","b","l","e"," ","n","o","t"," ","f","o","u","n","d">>]
            ELSE LET path_buf == replace(args[1], "~", home.v)
                     r == change_dir(tree, wd, path_buf)
                 IN [base EXCEPT !.chdir = Some(path_buf),
                                 !.wd = dir_after(wd, r),
                                 !.text = IF r.err = "Ok" THEN <<>>
                                          ELSE cd_error(r.err, path_buf)]
       ELSE IF home.some /\ home.v # <<>>
            THEN LET r == set_current_dir(tree, wd, home.v)
                 IN [base EXCEPT !.chdir = Some(home.v),
                                 !.wd = dir_after(wd, r),
                                 !.text = IF r.err = "Ok" THEN <<>>
                                          ELSE <<"c","d",":"," ","e","r","r","o","r"," ","c","h","a","n","g","i","n","g"," ","t","o"," ","h","o","m","e"," ","d","i","r","e","c","t","o","r","y",":"," ">>
                                               \o ErrorText(r.err)]
            ELSE [base EXCEPT !.text = <<"c","d",":"," ","H","O","M","E"," ","e","n","v","i","r","o","n","m","e","n","t"," ","v","a","r","i","a","b","l","e"," ","n","o","t"," ","s","e","t">>]

\* the cd branch of parse
parse_cd(args, tree, wd, home) ==
    LET base == [Quiet(wd) EXCEPT !.branch = "cd"]
    IN IF args # <<>>
       THEN IF ~home.some
            THEN [base EXCEPT !.kind = "Err",
                              !.text = <<"e","n","v","i","r","o","n","m","e","n","t"," ","v","a","r","i","a","b","l","e"," ","n","o","t"," ","f","o","u","n","d">>]
            ELSE LET path_buf == replace(args[1], "~", home.v)
                     r == change_dir(tree, wd, path_buf)
                 IN [base EXCEPT !.chdir = Some(path_buf),
                                 !.wd = dir_after(wd, r),
                                 !.text = IF r.err = "Ok" THEN <<>>
                                          ELSE cd_error(r.err, path_buf)]
       ELSE IF home.some
            THEN LET r == set_current_dir(tree, wd, home.v)
                 IN [base EXCEPT !.chdir = Some(home.v),
                                 !.wd = dir_after(wd, r),
                                 !.text = IF r.err = "Ok" THEN <<>>
                                          ELSE <<"c","d",":"," ","e","r","r","o","r"," ","c","h","a","n","g","i","n","g"," ","t","o"," ","h","o","m","e"," ","d","i","r","e","c","t","o","r","y",":"," ">>
                                               \o ErrorText(r.err)]
            ELSE [base EXCEPT !.text = <<"c","d",":"," ","H","O","M","E"," ","e","n","v","i","r","o","n","m","e","n","t"," ","v","a","r","i","a","b","l","e"," ","n","o","t"," ","s","e","t">>]

\* the last branch of parse: an external command
parse_otherwise(command, args, path, tree, wd, stdout) ==
    LET base == [Quiet(wd) EXCEPT !.branch = "otherwise", !.resolver = Some(command)]
        found == get_command_path(command, path, tree, wd)
    IN IF found.some
       THEN IF can_spawn(tree, wd, found.v)
            THEN [base EXCEPT !.spawn = Some([program |-> found.v, args |-> args,
                                              stdout |-> stdout]),
                              !.text = captured(stdout)]
            ELSE [base EXCEPT !.kind = "Panic"]
       ELSE [base EXCEPT !.text = command \o <<":"," ","c","o","m","m","a","n","d"," ","n","o","t"," ","f","o","u","n","d">>]

\* the early return of parse for a line without a token
no_command(tokens) == tokens = <<>>

\* parse
parse(input, path, tree, wd, home, stdout) ==
    LET tokens == split_whitespace(input)
    IN IF no_command(tokens) THEN Quiet(wd)
       ELSE LET command == Head(tokens)
                args == Tail(tokens)
            IN CASE command = T_echo ->
                      [Quiet(wd) EXCEPT !.branch = "echo", !.text = echo_fold(<<>>, args)]
                 [] command = T_exit ->
                      [Quiet(wd) EXCEPT !.branch = "exit", !.kind = "Exit"]
                 [] command = T_type ->
                      IF args # <<>>
                      THEN [Quiet(wd) EXCEPT
                              !.branch = "type",
                              !.resolver = IF is_builtin(args[1]).some THEN None
                                           ELSE Some(args[1]),
                              !.text = type_response(args[1], path, tree, wd)]
                      ELSE [Quiet(wd) EXCEPT
                              !.branch = "type",
                              !.text = <<"t","y","p","e",":"," ","e","x","p","e","c","t","e","d"," ","a","n"," ","a","r","g","u","m","e","n","t"," ","o","f"," ","a"," ","c","o","m","m","a","n","d"," ","n","a","m","e">>]
                 [] command = T_pwd ->
                      [Quiet(wd) EXCEPT !.branch = "pwd", !.text = current_dir(wd)]
                 [] command = T_cd -> parse_cd(args, tree, wd, home)
                 [] OTHER -> parse_otherwise(command, args, path, tree, wd, stdout)

(* ------------------------------ main loop ------------------------------ *)

VARIABLES
    cwd,      \* the working directory of the process (components from the root)
    home,     \* the value of HOME in the environment, if it is set
    path,     \* the search path main computes from PATH before the loop
    fs,       \* the directory tree
    status,   \* "running", "exited" (process::exit) or "panicked"
    code,     \* the exit code of the process once it has ended
    line,     \* the input line read in the latest cycle
    outcome,  \* how parse ended in the latest cycle, and the text it returned
    written,  \* what the latest cycle wrote to standard output
    trace     \* the calls parse made in the latest cycle

vars == <<cwd, home, path, fs, status, code, line, outcome, written, trace>>

\* main, before the loop: PATH split at ':' or, if PATH is unset, no entry
search_path(pathVar) == IF pathVar.some THEN split(pathVar.v, ":") ELSE <<>>

\* Shell::read_stdin writes the prompt before it reads the line
Prompt == <<"$"," ">>

\* Shell::write_stdout: the text and a newline
write_stdout(text) == text \o <<"\n">>

\* Shell::write_stderr: the text and a newline, written to self.stdout
write_stderr(text) == text \o <<"\n">>

\* the match on parse's result in main
main_output(r) ==
    CASE r.kind = "Ok" -> IF r.text # <<>> THEN write_stdout(r.text) ELSE <<>>
      [] r.kind = "Err" -> write_stderr(r.text)
      [] OTHER -> <<>>

\* a faulty main_status: the exit branch returns instead of ending the process
main_status_no_exit(r) ==
    CASE r.kind = "Panic" -> "panicked"
      [] OTHER -> "running"

\* the state of the process after parse
main_status(r) ==
    CASE r.kind = "Exit" -> "exited"
      [] r.kind = "Panic" -> "panicked"
      [] OTHER -> "running"

\* a panicking Rust process ends with code 101
main_code(r) ==
    CASE r.kind = "Exit" -> Some(exit_code)
      [] r.kind = "Panic" -> Some(101)
      [] OTHER -> None

SeqsUpTo(A, n) == UNION {[1..k -> A] : k \in 0..n}

\* the bytes a child process may leave on its standard output
ChildOutputs ==
    SeqsUpTo({"a", "\n"}, MaxOutLen)
    \cup {<<" ">>, <<"a", " ">>, <<"a", "\t">>, <<"a", " ", "\n">>, <<"a", "\r", "\n">>,
          <<"0xFF">>, <<"a", "0xFF", "\n">>, <<"a", "\n", "\n", "\n">>,
          <<"a", "\f", "\n">>}

\* one iteration of the loop of main: prompt, read, parse, print; the bytes
\* on the standard output of a child are chosen only if a child is spawned
Cycle(input) ==
    /\ status = "running"
    /\ \E r0 \in {parse(input, path, fs, cwd, home, <<>>)} :
       \E stdout \in (IF r0.spawn.some THEN ChildOutputs ELSE {<<>>}) :
       \E r \in {IF stdout = <<>> THEN r0
                 ELSE parse(input, path, fs, cwd, home, stdout)} :
          /\ line' = Some(input)
          /\ cwd' = r.wd
          /\ outcome' = Some([kind |-> r.kind, text |-> r.text])
          /\ written' = Prompt \o main_output(r)
          /\ trace' = [branch |-> r.branch, resolver |-> r.resolver,
                       chdir |-> r.chdir, spawn |-> r.spawn]
          /\ status' = main_status(r)
          /\ code' = main_code(r)
    /\ UNCHANGED <<home, path, fs>>

(* ------------------------------- inputs -------------------------------- *)

RECURSIVE Join(_, _)
Join(tokens, sep) ==
    IF tokens = <<>> THEN <<>>
    ELSE IF Len(tokens) = 1 THEN tokens[1]
    ELSE tokens[1] \o sep \o Join(Tail(tokens), sep)

\* a token sequence laid out as an input line: single spaces and a newline
Plain(tokens) == Join(tokens, <<" ">>) \o <<"\n">>
\* the same with leading, repeated and trailing whitespace
Padded(tokens) == <<" ">> \o Join(tokens, <<"\t", "\f">>) \o <<" ", "\r", "\n">>

\* every command plainly, and the commands of padded also with padding
LinesOf(commands, padded) ==
    {Plain(c) : c \in commands} \cup {Padded(c) : c \in padded}

\* whitespace without a newline: runs of spaces and tabs, and some of the
\* other whitespace characters
BlankRuns ==
    SeqsUpTo({" ", "\t"}, MaxBlank)
    \cup {<<"\f">>, <<"\r">>, <<"U+00A0">>, <<"U+000B", " ">>}

\* whitespace-only lines as read_line returns them: ended by the one
\* newline, or cut short where the input ends for the moment (the empty
\* line among these); read_line is called afresh in every cycle and may
\* return further lines after such a read
BlankLines == {b \o e : b \in BlankRuns, e \in {<<"\n">>, <<>>}}

Builtins == {T_echo, T_type, T_exit, T_pwd, T_cd}
T_x == <<"x">>
T_n == <<"n">>
T_a == <<"a">>
T_bx == <<"/","b","/","x">>

EchoCommands == {<<T_echo>>, <<T_echo, T_a>>, <<T_echo, T_a, T_x>>}
ExitCommands == {<<T_exit>>, <<T_exit, T_a>>}
TypeCommands ==
    {<<T_type>>, <<T_type, T_x, T_a>>}
    \cup {<<T_type, a>> : a \in Builtins \cup {T_x, T_n, T_bx}}
PwdCommands == {<<T_pwd>>, <<T_pwd, T_a>>}
CdTargets ==
    {<<"/","h">>, <<"/","n">>, <<"/","p">>, <<"/","b","/","x">>, <<"~">>, <<"~","/","s">>, <<"s">>, <<".",".">>, <<"/","h","/">>}
CdCommands == {<<T_cd>>, <<T_cd, <<"/","h">>, T_a>>} \cup {<<T_cd, t>> : t \in CdTargets}
ExternalCommands == {<<T_x, T_a>>, <<T_n>>, <<T_bx>>}

(* ---------------------------- environments ----------------------------- *)

C_b == <<"b">>
C_u == <<"u">>
C_h == <<"h">>
C_s == <<"s">>
C_p == <<"p">>

\* what /b/x may be: absent, or a node
CandidatesB ==
    { None,
      Some(File(493, {"r", "x"})),   \* 0o755, ours
      Some(File(420, {"r"})),        \* 0o644: readable, no execute bit
      Some(File(73, {"x"})),         \* 0o111: executable, not readable
      Some(File(428, {"r"})),        \* 0o654 of another user: group-executable only
      Some(Dir(493, {"r", "x"})) }   \* a directory named x
\* what /u/x may be
CandidatesU == { None, Some(File(493, {"r", "x"})) }

\* the directory tree: /, /b, /u, /h, /h/s, the unsearchable /p, the
\* executable /b/cd, and the two candidates
Tree(bx, ux) ==
    LET fixed == {<<>>, <<C_b>>, <<C_u>>, <<C_h>>, <<C_h, C_s>>, <<C_p>>, <<C_b, T_cd>>}
        dom == fixed \cup (IF bx.some THEN {<<C_b, T_x>>} ELSE {})
                     \cup (IF ux.some THEN {<<C_u, T_x>>} ELSE {})
    IN [n \in dom |->
          CASE n = <<C_b, T_x>> -> bx.v
            [] n = <<C_u, T_x>> -> ux.v
            [] n = <<C_p>> -> Dir(448, {})
            [] n = <<C_b, T_cd>> -> File(493, {"r", "x"})
            [] OTHER -> Dir(493, {"r", "x"})]

PathValues == { None, Some(<<"/","b">>), Some(<<"/","b",":","/","u">>), Some(<<"/","u","/",":","/","b">>) }
HomeValues == { None, Some(<<>>), Some(<<"/","h">>), Some(<<"/","n">>) }

\* the environments the shell is started in: every pair of candidates under
\* PATH=/b:/u and HOME=/h, and with both candidates executable every PATH
\* under HOME=/h and every HOME under PATH=/b:/u
Environments ==
    { e \in [bx : CandidatesB, ux : CandidatesU, pathVar : PathValues, home : HomeValues] :
        \/ e.pathVar = Some(<<"/","b",":","/","u">>) /\ e.home = Some(<<"/","h">>)
        \/ /\ e.bx = Some(File(493, {"r", "x"}))
           /\ e.ux = Some(File(493, {"r", "x"}))
           /\ (e.pathVar = Some(<<"/","b",":","/","u">>) \/ e.home = Some(<<"/","h">>)) }

Init ==
    /\ cwd = <<>>
    /\ \E e \in Environments :
          /\ home = e.home
          /\ path = search_path(e.pathVar)
          /\ fs = Tree(e.bx, e.ux)
    /\ status = "running"
    /\ code = None
    /\ line = None
    /\ outcome = None
    /\ written = <<>>
    /\ trace = [branch |-> "none", resolver |-> None, chdir |-> None, spawn |-> None]

(* ------------------------------- actions ------------------------------- *)

EchoLines == LinesOf(EchoCommands, EchoCommands)
ExitLines == LinesOf(ExitCommands, {<<T_exit>>})
TypeLines == LinesOf(TypeCommands, {<<T_type, T_x>>, <<T_type, T_cd>>})
PwdLines == LinesOf(PwdCommands, {<<T_pwd>>})
CdLines == LinesOf(CdCommands, {<<T_cd>>, <<T_cd, <<"~","/","s">>>>})
ExternalLines == LinesOf(ExternalCommands, {<<T_x, T_a>>})

BlankLine == \E l \in BlankLines : Cycle(l)
EchoLine == \E l \in EchoLines : Cycle(l)
ExitLine == \E l \in ExitLines : Cycle(l)
TypeLine == \E l \in TypeLines : Cycle(l)
PwdLine == \E l \in PwdLines : Cycle(l)
CdLine == \E l \in CdLines : Cycle(l)
ExternalLine == \E l \in ExternalLines : Cycle(l)

Next ==
    \/ BlankLine
    \/ EchoLine
    \/ ExitLine
    \/ TypeLine
    \/ PwdLine
    \/ CdLine
    \/ ExternalLine

Spec == Init /\ [][Next]_vars

(* ------------------------------- claims -------------------------------- *)

\* the latest cycle read one of the layouts of the token sequence
Reads(l, tokens) == l \in {Some(Plain(tokens)), Some(Padded(tokens))}

\* the line consists solely of whitespace
AllBlank(l) == l.some /\ \A i \in 1..Len(l.v) : l.v[i] \in WhiteSpace

NoCalls == [branch |-> "none", resolver |-> None, chdir |-> None, spawn |-> None]

\* C1: a cycle that reads a line of whitespace only (the empty line
\* included) ends with parse returning the empty Response, having entered
\* no branch of the match and called neither the resolver, chdir nor a
\* child; the loop writes nothing but the prompt and the working directory
\* is the one before the cycle.
C1_BlankLineIsQuiet ==
    [][AllBlank(line') =>
          /\ outcome' = Some([kind |-> "Ok", text |-> <<>>])
          /\ trace' = NoCalls
          /\ written' = Prompt
          /\ cwd' = cwd
          /\ status' = "running"]_vars

C1_Witness ==
    /\ line = Some(<<"\f", "\n">>)
    /\ outcome = Some([kind |-> "Ok", text |-> <<>>])
    /\ written = Prompt

\* a regular file of the name with some execute bit, by the metadata alone
ExecutableFile(tree, wd, p) ==
    LET r == Lookup(tree, wd, p)
    IN /\ r.err = "Ok"
       /\ tree[r.at].kind = "file"
       /\ \E bit \in {1, 8, 64} : (tree[r.at].mode \div bit) % 2 = 1

Min(S) == CHOOSE m \in S : \A k \in S : m <= k

\* C2: after `type x`, the Response names the candidate of the earliest
\* directory of the search path that holds an executable file x, and it is
\* "x: not found" only when no directory holds one.
C2_FirstExecutableWins ==
    Reads(line, <<T_type, T_x>>) =>
        LET hits == {i \in 1..Len(path) : ExecutableFile(fs, cwd, push(path[i], T_x))}
        IN outcome.v.text = IF hits = {} THEN T_x \o <<":"," ","n","o","t"," ","f","o","u","n","d">>
                            ELSE T_x \o <<" ","i","s"," ">> \o push(path[Min(hits)], T_x)

\* C3: after `type x` with a non-empty search path, the candidate of the
\* first directory is the one reported exactly when it is a regular file
\* with some execute bit, whether or not it can be read.
C3_AcceptedIffExecutableFile ==
    (Reads(line, <<T_type, T_x>>) /\ path # <<>>) =>
        LET p == push(path[1], T_x)
        IN (outcome.v.text = T_x \o <<" ","i","s"," ">> \o p) <=> ExecutableFile(fs, cwd, p)

TypeNames == Builtins \cup {T_x, T_n, T_bx}

\* C4: `type <name>` answers "<name> is a shell builtin" for the five
\* built-in names without consulting the search path, otherwise
\* "<name> is <path>" with the path the resolver finds, otherwise
\* "<name>: not found"; without an argument it answers the usage hint; it
\* never changes the working directory and never spawns a process.
C4_TypeAnswers ==
    [][/\ \A a \in TypeNames :
            Reads(line', <<T_type, a>>) =>
               /\ outcome'.v.kind = "Ok"
               /\ cwd' = cwd /\ trace'.chdir = None /\ trace'.spawn = None
               /\ IF a \in Builtins
                  THEN /\ outcome'.v.text = a \o <<" ","i","s"," ","a"," ","s","h","e","l","l"," ","b","u","i","l","t","i","n">>
                       /\ trace'.resolver = None
                  ELSE LET found == get_command_path(a, path, fs, cwd)
                       IN outcome'.v.text = IF found.some THEN a \o <<" ","i","s"," ">> \o found.v
                                            ELSE a \o <<":"," ","n","o","t"," ","f","o","u","n","d">>
       /\ Reads(line', <<T_type>>) =>
            /\ outcome' = Some([kind |-> "Ok",
                                text |-> <<"t","y","p","e",":"," ","e","x","p","e","c","t","e","d"," ","a","n"," ","a","r","g","u","m","e","n","t"," ","o","f"," ","a"," ","c","o","m","m","a","n","d"," ","n","a","m","e">>])
            /\ cwd' = cwd /\ trace'.chdir = None /\ trace'.spawn = None
      ]_vars

\* `type cd` while /b/cd is an executable the search path reaches
C4_Witness ==
    /\ Reads(line, <<T_type, T_cd>>)
    /\ get_command_path(T_cd, path, fs, cwd).some
    /\ outcome = Some([kind |-> "Ok", text |-> <<"c","d"," ","i","s"," ","a"," ","s","h","e","l","l"," ","b","u","i","l","t","i","n">>])

\* C5: after `cd <target>`, when the change fails the working directory is
\* the one before and the Response is "cd: <target>: No such file or
\* directory" for not-found, "cd: permission denied: <target>" for
\* permission-denied and "cd: error changing to <target>: <error>" for any
\* other failure; when it succeeds the Response is empty and the working
\* directory is the target.  The target is the argument with `~` replaced
\* by the value of HOME; an argument with `~` while HOME is unset names no
\* target and is left aside.
C5_CdClassifiesFailure ==
    [][\A t \in CdTargets :
          (Reads(line', <<T_cd, t>>) /\ (home.some \/ \A i \in 1..Len(t) : t[i] # "~")) =>
             LET target == IF home.some THEN replace(t, "~", home.v) ELSE t
                 r == set_current_dir(fs, cwd, target)
             IN /\ outcome'.v.kind = "Ok"
                /\ cwd' = r.wd
                /\ outcome'.v.text =
                      CASE r.err = "Ok" -> <<>>
                        [] r.err = "NotFound" ->
                             <<"c","d",":"," ">> \o target \o <<":"," ","N","o"," ","s","u","c","h"," ","f","i","l","e"," ","o","r"," ","d","i","r","e","c","t","o","r","y">>
                        [] r.err = "PermissionDenied" ->
                             <<"c","d",":"," ","p","e","r","m","i","s","s","i","o","n"," ","d","e","n","i","e","d",":"," ">> \o target
                        [] OTHER -> <<"c","d",":"," ","e","r","r","o","r"," ","c","h","a","n","g","i","n","g"," ","t","o"," ">> \o target \o <<":"," ">>
                                    \o ErrorText(r.err)
      ]_vars

\* C6 as stated: `cd` without an argument moves to the value of HOME and
\* answers nothing whenever that value is non-empty, and answers "cd: HOME
\* environment variable not set" without attempting a change when HOME is
\* unset or empty.
C6_AsStated ==
    Reads(line, <<T_cd>>) =>
        IF home.some /\ home.v # <<>>
        THEN /\ current_dir(cwd) = home.v
             /\ outcome = Some([kind |-> "Ok", text |-> <<>>])
        ELSE /\ outcome = Some([kind |-> "Ok",
                                text |-> <<"c","d",":"," ","H","O","M","E"," ","e","n","v","i","r","o","n","m","e","n","t"," ","v","a","r","i","a","b","l","e"," ","n","o","t"," ","s","e","t">>])
             /\ trace.chdir = None

\* C6 amended: `cd` without an argument attempts the change to the value
\* of HOME whenever HOME is set, the empty value included; if the change
\* succeeds the working directory is that directory and the Response is
\* empty, if it fails the working directory is the one before and the
\* Response is "cd: error changing to home directory: <error>"; only when
\* the lookup of HOME fails is the Response "cd: HOME environment variable
\* not set", with no change attempted.
C6_CdHome ==
    [][Reads(line', <<T_cd>>) =>
          IF home.some
          THEN LET r == set_current_dir(fs, cwd, home.v)
               IN /\ trace'.chdir = Some(home.v)
                  /\ cwd' = r.wd
                  /\ outcome' = Some([kind |-> "Ok",
                        text |-> IF r.err = "Ok" THEN <<>>
                                 ELSE <<"c","d",":"," ","e","r","r","o","r"," ","c","h","a","n","g","i","n","g"," ","t","o"," ","h","o","m","e"," ","d","i","r","e","c","t","o","r","y",":"," ">>
                                      \o ErrorText(r.err)])
          ELSE /\ trace'.chdir = None
               /\ cwd' = cwd
               /\ outcome' = Some([kind |-> "Ok",
                                   text |-> <<"c","d",":"," ","H","O","M","E"," ","e","n","v","i","r","o","n","m","e","n","t"," ","v","a","r","i","a","b","l","e"," ","n","o","t"," ","s","e","t">>])
      ]_vars

\* `cd` with HOME set to the empty string: the change is attempted and fails
C6_Witness ==
    /\ Reads(line, <<T_cd>>)
    /\ home = Some(<<>>)
    /\ trace.chdir = Some(<<>>)
    /\ outcome = Some([kind |-> "Ok",
         text |-> <<"c","d",":"," ","e","r","r","o","r"," ","c","h","a","n","g","i","n","g"," ","t","o"," ","h","o","m","e"," ","d","i","r","e","c","t","o","r","y",":"," ","N","o"," ","s","u","c","h"," ","f","i","l","e"," ","o","r"," ","d","i","r","e","c","t","o","r","y"," ","(","o","s"," ","e","r","r","o","r"," ","2",")">>])

\* C7: after `cd <arg>` the path handed to the change of directory is the
\* argument with every `~` replaced by the value of HOME, and an argument
\* without `~` is handed over unchanged whether or not HOME is set.
C7_HomeOnlyForTilde ==
    \A t \in CdTargets :
        Reads(line, <<T_cd, t>>) =>
            IF \E i \in 1..Len(t) : t[i] = "~"
            THEN home.some => trace.chdir = Some(replace(t, "~", home.v))
            ELSE trace.chdir = Some(t)

\* C8: no cycle starts once the process has ended; a line whose first
\* token is `exit` ends the process with code 0 and nothing but the prompt
\* written; after any other line for which parse returns a Response the
\* process is still running.
C8_ExitEndsTheLoop ==
    [][/\ status = "running"
       /\ line'.v \in ExitLines =>
            /\ status' = "exited"
            /\ code' = Some(0)
            /\ written' = Prompt
            /\ outcome'.v.kind = "Exit"
       /\ (line'.v \notin ExitLines /\ outcome'.v.kind = "Ok") =>
            /\ status' = "running"
            /\ code' = None
      ]_vars

\* `exit a`: further tokens do not matter
C8_Witness ==
    /\ line = Some(Plain(<<T_exit, T_a>>))
    /\ status = "exited"
    /\ code = Some(0)

\* exactly one trailing newline sequence ("\n" or "\r\n") removed
StripOneNewline(s) ==
    IF Len(s) >= 2 /\ s[Len(s) - 1] = "\r" /\ s[Len(s)] = "\n"
    THEN SubSeq(s, 1, Len(s) - 2)
    ELSE IF Len(s) >= 1 /\ s[Len(s)] = "\n" THEN SubSeq(s, 1, Len(s) - 1)
    ELSE s

\* C9: when a child was spawned the Response is its standard output with
\* exactly one trailing newline sequence removed and nothing else altered;
\* when the token does not resolve the Response is "<token>: command not
\* found" and no child is spawned.
C9_OneNewlineTrimmed ==
    /\ trace.spawn.some =>
         outcome.v.text = StripOneNewline(from_utf8_lossy(trace.spawn.v.stdout))
    /\ Reads(line, <<T_n>>) =>
         /\ outcome.v.text = T_n \o <<":"," ","c","o","m","m","a","n","d"," ","n","o","t"," ","f","o","u","n","d">>
         /\ trace.spawn = None

\* C10: the working directory changes only in a cycle that reads a `cd`
\* line whose change of directory succeeds; a `pwd` answers the working
\* directory and leaves it alone, so a `pwd` right after a `pwd` answers
\* the same.
C10_OnlyCdMoves ==
    [][/\ cwd' # cwd =>
            /\ line'.v \in CdLines
            /\ trace'.chdir.some
            /\ set_current_dir(fs, cwd, trace'.chdir.v) = [err |-> "Ok", wd |-> cwd']
            /\ outcome' = Some([kind |-> "Ok", text |-> <<>>])
       /\ line'.v \in PwdLines =>
            /\ cwd' = cwd
            /\ outcome'.v.kind = "Ok"
            /\ outcome'.v.text = current_dir(cwd)
       /\ (line.some /\ line.v \in PwdLines /\ line'.v \in PwdLines) =>
            outcome'.v.text = outcome.v.text
      ]_vars

\* a `pwd` in /h/s, reached by successful `cd`s
C10_Witness ==
    /\ line = Some(Plain(<<T_pwd>>))
    /\ cwd = <<C_h, C_s>>
    /\ outcome = Some([kind |-> "Ok", text |-> <<"/","h","/","s">>])

====
